---- MODULE Spec2Model ----
(***************************************************************************)
(* A model of scripts/validate.py: one run of main() over a repository     *)
(* tree, a cdf-meta.json manifest and a set of attestation files.          *)
(*                                                                         *)
(* The run is sequential.  Each action below is one block of main(); the   *)
(* inputs a block reads from its environment (a command-line argument, an  *)
(* environment variable, a file's content, the answer of an external       *)
(* tool) are drawn where the block reads them.  An uncaught Python         *)
(* exception ends the run with a traceback and exit status 1.              *)
(*                                                                         *)
(* Not modelled: the options handed to cosign (lines 139-168 and 200-211,  *)
(* public key, certificate and tlog flags).  They change only the command  *)
(* line of the external tool, whose return code is an input here.  The     *)
(* command-line arguments are those argparse accepts, and the file system  *)
(* does not change during the run.                                         *)
(***************************************************************************)
EXTENDS Naturals, Sequences, FiniteSets, TLC

VARIABLES
    pc,                        \* position of the run in main()
    skip_signature_validation, \* args.skip_signature_validation
    manifest_dirs,             \* directories of the repository holding a cdf-meta.json
    disk,                      \* content of pat/stable/svc/cdf-main.tf, or "missing"
    cdf_path,                  \* str(cdf_path) after line 75
    found,                     \* find_cdf_path returned a located root (lines 25, 28, 31)
    manifest,                  \* what line 96 read from cdf-meta.json
    meta,                      \* the variable meta
    file_count,
    meta_files,
    authorized,                \* paths printed as "Authorized TF file"
    i,                         \* index of the hash loop in meta['files']
    unauthorized_errors,
    signature_errors,
    cosign_installed,          \* a cosign executable is on the PATH
    probed,                    \* is_cosign_available() has been called
    atts,                      \* attestation files the loop of line 179 has processed
    attested_total,
    attested_passed,
    run_calls,                 \* number of cosign verify-blob invocations (line 212)
    outputs,                   \* the key=value lines emitted and where
    exit_code,                 \* process exit status, read once pc = "done"
    traceback                  \* uncaught exception that ended the run, or "none"

vars == << pc, skip_signature_validation, manifest_dirs, disk, cdf_path, found,
           manifest, meta, file_count, meta_files, authorized, i,
           unauthorized_errors, signature_errors, cosign_installed, probed, atts, attested_total,
           attested_passed, run_calls, outputs, exit_code, traceback >>

----------------------------------------------------------------------------
(* Bounds of the model. *)

MaxFiles == 2        \* longest 'files' list of a manifest
MaxAtt == 2          \* most *.attestation.json files under the root

----------------------------------------------------------------------------
(* Python values. *)

NONE == "None"               \* None, also what dict.get gives for an absent key
NONSTR == "<int>"            \* a JSON number where a string is expected

\* bool(v) of a str-or-None value.
Truthy(v) == v \notin {NONE, ""}

\* A comparison that forgets str.lower().
Lower_CaseSensitive(s) == s

\* str.lower() on the argument values considered.
Lower(s) ==
    CASE s = "TRUE" -> "true"
      [] s = "True" -> "true"
      [] OTHER -> s

\* str.startswith('placeholder_') on the hash values considered.
StartsWithPlaceholder(s) == s \in {"placeholder_", "placeholder_1"}

RECURSIVE Join(_)
\* str(Path) of a sequence of path components.
Join(p) ==
    IF Len(p) = 0 THEN "."
    ELSE IF Len(p) = 1 THEN p[1]
    ELSE p[1] \o "/" \o Join(Tail(p))

Front(p) == SubSeq(p, 1, Len(p) - 1)

----------------------------------------------------------------------------
(* The repository tree, as paths (sequences of components) below the       *)
(* working directory.  Everything lives in the directory "pat".            *)

Dirs == {"pat"}
TF == <<"stable", "svc", "cdf-main.tf">>
TFDirect == <<"stable", "cdf-main.tf">>
TFGit == <<".git", "stable", "svc", "cdf-main.tf">>
Contents == {"c1", "c2"}
DiskStates == {"missing"} \cup Contents

\* Files present under the working directory.
Files ==
    { <<"pat">> \o TFDirect, <<"pat">> \o TFGit }
    \cup (IF disk = "missing" THEN {} ELSE { <<"pat">> \o TF })
    \cup { <<d, "cdf-meta.json">> : d \in manifest_dirs }

\* Files below a root, as paths relative to it.
Below(root) ==
    IF root = "." THEN Files
    ELSE { Tail(p) : p \in { q \in Files : q[1] = root } }

\* Path.exists() of root / name for a manifest name.
PathExists(root, name) ==
    \E p \in Below(root) : Join(p) = name

\* The SHA-256 digests of the contents considered ("cm": a manifest's bytes).
Sha256(c) ==
    CASE c = "c1" -> "h1"
      [] c = "c2" -> "h2"
      [] c = "cm" -> "hm"

\* Content of the existing file root / name.
ContentOf(root, name) ==
    IF name = Join(TF) THEN disk ELSE "cm"

sha256_file(root, name) ==
    Sha256(ContentOf(root, name))

----------------------------------------------------------------------------
(* find_cdf_path, lines 17-32.  "" stands for Path(''). *)

ExplicitArgs == {"", "pat", "pat/cdf-meta.json", "nodir"}

IsManifestFile(explicit) ==
    \E d \in manifest_dirs : explicit = d \o "/cdf-meta.json"

ParentOf(explicit) ==
    CHOOSE d \in manifest_dirs : explicit = d \o "/cdf-meta.json"

find_cdf_path(explicit) ==
    IF explicit # "" THEN
        IF explicit \in manifest_dirs THEN explicit
        ELSE IF IsManifestFile(explicit) THEN ParentOf(explicit)
        ELSE ""
    ELSE IF manifest_dirs # {} THEN CHOOSE d \in manifest_dirs : TRUE
    ELSE ""

\* pathlib: Path('') is Path('.').
PathStr(s) == IF s = "" THEN "." ELSE s

\* bool(Path): pathlib defines neither __bool__ nor __len__.
PathTruthy(p) == TRUE

\* Path.exists() of a directory.
DirExists(p) == p = "." \/ p \in Dirs

----------------------------------------------------------------------------
(* list_tf_files, lines 35-48. *)

DotGitIn(c) == c \in {".git", ".github"}

\* '/stable/' in root, for root the components of an os.walk directory.
SlashNameSlashIn(name, root) ==
    \E k \in 2..(Len(root) - 1) : root[k] = name

list_tf_files(root) ==
    { p \in Below(root) :
        LET walkroot == <<root>> \o Front(p)
        IN  /\ ~ \E k \in 1..Len(walkroot) : DotGitIn(walkroot[k])
            /\ (SlashNameSlashIn("stable", walkroot)
                \/ SlashNameSlashIn("unstable", walkroot))
            /\ p[Len(p)] = "cdf-main.tf" }

\* fnmatch of a file name against '*cdf*'.
MatchesCdf(name) == name \in {"cdf-main.tf", "cdf-meta.json"}

----------------------------------------------------------------------------
(* Manifest documents. *)

EntryHashes == {NONE, "h1", "h2", "placeholder_1", NONSTR}

\* An element of meta['files']: a JSON object, or a JSON string.
Entries ==
    { [isdict |-> TRUE, name |-> Join(TF), sha256 |-> h] : h \in EntryHashes }
    \cup { [isdict |-> TRUE, name |-> NONE, sha256 |-> "h1"],
           [isdict |-> TRUE, name |-> "cdf-meta.json", sha256 |-> "h1"],
           [isdict |-> FALSE, name |-> NONE, sha256 |-> NONE] }

FileLists == UNION { [1..n -> Entries] : n \in 0..MaxFiles }

\* kind: "garbage" (not JSON), "scalar" (JSON, not an object), "object".
\* truthy: bool() of the parsed value.  ftype: type of its 'files' value.
Doc(kind, truthy, ftype, files) ==
    [kind |-> kind, truthy |-> truthy, ftype |-> ftype, files |-> files]

EmptyDict == Doc("object", FALSE, "absent", <<>>)
NoDoc == Doc("unread", FALSE, "absent", <<>>)

ManifestDocs ==
    { Doc("garbage", FALSE, "absent", <<>>),
      Doc("scalar", TRUE, "absent", <<>>),
      Doc("scalar", FALSE, "absent", <<>>),
      EmptyDict,
      Doc("object", TRUE, "absent", <<>>),
      Doc("object", TRUE, "nonlist", <<>>) }
    \cup { Doc("object", TRUE, "list", fl) : fl \in FileLists }

----------------------------------------------------------------------------
(* Attestation files. *)

ReqFields == {"_type", "subject", "predicateType", "predicate"}
AttFieldSets == { {"_type", "subject"}, ReqFields }

\* json: "garbage" when json.loads or the 'in' test raises.  fields: the
\* required fields the object holds.  sig: the .sig file exists.  rc: the
\* return code of cosign verify-blob.  What the code does not read is fixed.
AttFiles ==
    { a \in [json : {"garbage", "object"}, fields : AttFieldSets,
             sig : BOOLEAN, rc : {0, 1}] :
        /\ a.json = "garbage" => (a.fields = ReqFields /\ ~a.sig)
        /\ ~a.sig => a.rc = 0 }

----------------------------------------------------------------------------
(* The run. *)

NoOutput == [channel |-> "none", status |-> "", error_count |-> 0, file_count |-> 0]

Init ==
    /\ pc = "start"
    /\ skip_signature_validation \in {"true", "TRUE", "false"}
    /\ manifest_dirs \in SUBSET Dirs
    /\ disk \in DiskStates
    /\ cdf_path = ""
    /\ found = FALSE
    /\ manifest = NoDoc
    /\ meta = EmptyDict
    /\ file_count = 0
    /\ meta_files = {}
    /\ authorized = {}
    /\ i = 0
    /\ unauthorized_errors = 0
    /\ signature_errors = 0
    /\ cosign_installed \in BOOLEAN
    /\ probed = FALSE
    /\ atts = <<>>
    /\ attested_total = 0
    /\ attested_passed = 0
    /\ run_calls = 0
    /\ outputs = NoOutput
    /\ exit_code = 0
    /\ traceback = "none"

\* An uncaught exception: traceback, exit status 1, nothing more happens.
Raise(exc) ==
    /\ pc' = "done"
    /\ traceback' = exc
    /\ exit_code' = 1

\* Line 75.
FindCdfPath ==
    /\ pc = "start"
    /\ \E explicit \in ExplicitArgs :
        /\ cdf_path' = PathStr(find_cdf_path(explicit))
        /\ found' = (find_cdf_path(explicit) # "")
    /\ pc' = "check"
    /\ UNCHANGED << skip_signature_validation, manifest_dirs, disk, manifest, meta,
                    file_count, meta_files, authorized, i, unauthorized_errors,
                    signature_errors, cosign_installed, probed, atts, attested_total, attested_passed,
                    run_calls, outputs, exit_code, traceback >>

\* Lines 76-89.
CheckPath ==
    /\ pc = "check"
    /\ IF ~PathTruthy(cdf_path) \/ ~DirExists(cdf_path)
       THEN /\ \E github_output \in BOOLEAN :
                outputs' = [channel |-> IF github_output THEN "stdout+file" ELSE "stdout",
                            status |-> "skipped", error_count |-> 0, file_count |-> 0]
            /\ exit_code' = 0
            /\ pc' = "done"
       ELSE /\ pc' = "load"
            /\ UNCHANGED << outputs, exit_code >>
    /\ unauthorized_errors' = 0
    /\ signature_errors' = 0
    /\ UNCHANGED << skip_signature_validation, manifest_dirs, disk, cdf_path, found,
                    manifest, meta, file_count, meta_files, authorized, i, cosign_installed, probed, atts,
                    attested_total, attested_passed, run_calls, traceback >>

\* A load that takes any document for a value.
json_loads_Lenient(doc) == "value"

\* json.loads(meta_path.read_text()), line 96: the value, or "error" when
\* it raises.
json_loads(doc) == IF doc.kind = "garbage" THEN "error" ELSE "value"

\* Lines 91-99.
LoadMeta ==
    /\ pc = "load"
    /\ IF cdf_path \in manifest_dirs
       THEN \E doc \in ManifestDocs :
              /\ manifest' = doc
              /\ IF json_loads(doc) = "error"
                 THEN /\ meta' = EmptyDict
                      /\ unauthorized_errors' = unauthorized_errors + 1
                 ELSE /\ meta' = doc
                      /\ UNCHANGED unauthorized_errors
       ELSE /\ manifest' = Doc("absent", FALSE, "absent", <<>>)
            /\ UNCHANGED << meta, unauthorized_errors >>
    /\ pc' = "count"
    /\ UNCHANGED << skip_signature_validation, manifest_dirs, disk, cdf_path, found,
                    file_count, meta_files, authorized, i, signature_errors, cosign_installed, probed,
                    atts, attested_total, attested_passed, run_calls, outputs,
                    exit_code, traceback >>

\* Lines 101-102.
CountFiles ==
    /\ pc = "count"
    /\ file_count' = Cardinality({ p \in Below(cdf_path) : MatchesCdf(p[Len(p)]) })
    /\ pc' = "collect"
    /\ UNCHANGED << skip_signature_validation, manifest_dirs, disk, cdf_path, found,
                    manifest, meta, meta_files, authorized, i, unauthorized_errors,
                    signature_errors, cosign_installed, probed, atts, attested_total, attested_passed,
                    run_calls, outputs, exit_code, traceback >>

\* Line 106 without its isinstance test.
lists_files_AnyObject(m) ==
    IF ~m.truthy THEN "false"
    ELSE IF m.kind # "object" THEN "raise"
    ELSE "true"

\* The condition of line 106, meta and isinstance(meta.get('files'), list):
\* "raise" when meta.get raises AttributeError (meta is no dict).
lists_files(m) ==
    IF ~m.truthy THEN "false"
    ELSE IF m.kind # "object" THEN "raise"
    ELSE IF m.ftype = "list" THEN "true"
    ELSE "false"

\* Lines 104-110.  f.get raises AttributeError when an element of the list
\* is no dict.
CollectMetaFiles ==
    /\ pc = "collect"
    /\ IF lists_files(meta) = "false"
       THEN /\ pc' = "emit"
            /\ UNCHANGED << meta_files, exit_code, traceback >>
       ELSE IF lists_files(meta) = "raise"
       THEN /\ Raise("AttributeError")
            /\ UNCHANGED meta_files
       ELSE IF \E k \in 1..Len(meta.files) : ~meta.files[k].isdict
       THEN /\ Raise("AttributeError")
            /\ meta_files' = { meta.files[k].name :
                                 k \in { j \in 1..Len(meta.files) :
                                           /\ \A l \in 1..j : meta.files[l].isdict
                                           /\ Truthy(meta.files[j].name) } }
       ELSE /\ pc' = "authorize"
            /\ meta_files' = { meta.files[k].name :
                                 k \in { j \in 1..Len(meta.files) :
                                           Truthy(meta.files[j].name) } }
            /\ UNCHANGED << exit_code, traceback >>
    /\ UNCHANGED << skip_signature_validation, manifest_dirs, disk, cdf_path, found,
                    manifest, meta, file_count, authorized, i, unauthorized_errors,
                    signature_errors, cosign_installed, probed, atts, attested_total, attested_passed,
                    run_calls, outputs >>

\* Lines 112-116.
AuthorizeTf ==
    /\ pc = "authorize"
    /\ \E fail_on_unauthorized_tf \in {"true", "True", "false"} :
         authorized' = IF Lower(fail_on_unauthorized_tf) = "true"
                       THEN { Join(tf) : tf \in list_tf_files(cdf_path) }
                       ELSE {}
    /\ i' = 1
    /\ pc' = "hash"
    /\ UNCHANGED << skip_signature_validation, manifest_dirs, disk, cdf_path, found,
                    manifest, meta, file_count, meta_files, unauthorized_errors,
                    signature_errors, cosign_installed, probed, atts, attested_total, attested_passed,
                    run_calls, outputs, exit_code, traceback >>

\* The loop body without the comparison of line 133.
check_entry_NoCompare(f) ==
    IF ~Truthy(f.name) \/ ~Truthy(f.sha256) THEN "continue"
    ELSE IF f.name = "cdf-meta.json" THEN "continue"
    ELSE IF f.sha256 = NONSTR THEN "raise"
    ELSE IF StartsWithPlaceholder(f.sha256) THEN "continue"
    ELSE IF ~PathExists(cdf_path, f.name) THEN "missing"
    ELSE "match"

\* The body of the loop of lines 119-137 for one element f of the list:
\* what it does with it.
check_entry(f) ==
    IF ~Truthy(f.name) \/ ~Truthy(f.sha256) THEN "continue"
    ELSE IF f.name = "cdf-meta.json" THEN "continue"
    ELSE IF f.sha256 = NONSTR THEN "raise"
    ELSE IF StartsWithPlaceholder(f.sha256) THEN "continue"
    ELSE IF ~PathExists(cdf_path, f.name) THEN "missing"
    ELSE IF sha256_file(cdf_path, f.name) # f.sha256 THEN "mismatch"
    ELSE "match"

\* One iteration of the loop of lines 119-137.
HashEntry ==
    /\ pc = "hash"
    /\ i <= Len(meta.files)
    /\ LET verdict == check_entry(meta.files[i])
       IN  IF verdict = "raise"
           THEN /\ Raise("AttributeError")
                /\ UNCHANGED << i, unauthorized_errors >>
           ELSE /\ unauthorized_errors' =
                      IF verdict \in {"missing", "mismatch"}
                      THEN unauthorized_errors + 1
                      ELSE unauthorized_errors
                /\ i' = i + 1
                /\ UNCHANGED << pc, exit_code, traceback >>
    /\ UNCHANGED << skip_signature_validation, manifest_dirs, disk, cdf_path, found,
                    manifest, meta, file_count, meta_files, authorized,
                    signature_errors, cosign_installed, probed, atts, attested_total,
                    attested_passed, run_calls, outputs >>

\* The loop of line 119 is exhausted.
HashEnd ==
    /\ pc = "hash"
    /\ i > Len(meta.files)
    /\ pc' = "signature"
    /\ UNCHANGED << skip_signature_validation, manifest_dirs, disk, cdf_path, found,
                    manifest, meta, file_count, meta_files, authorized, i,
                    unauthorized_errors, signature_errors, cosign_installed, probed, atts, attested_total,
                    attested_passed, run_calls, outputs, exit_code, traceback >>

\* A probe that always reports cosign.
is_cosign_available_Always == TRUE

\* shutil.which('cosign') is not None.
is_cosign_available == cosign_installed

\* Lines 170-178.
SignatureCheck ==
    /\ pc = "signature"
    /\ IF Lower(skip_signature_validation) # "true"
       THEN /\ probed' = TRUE
            /\ IF ~is_cosign_available
               THEN /\ signature_errors' = signature_errors + 1
                    /\ pc' = "emit"
                    /\ UNCHANGED << attested_total, attested_passed >>
               ELSE /\ pc' = "attest"
                    /\ attested_total' = 0
                    /\ attested_passed' = 0
                    /\ UNCHANGED signature_errors
       ELSE /\ pc' = "emit"
            /\ UNCHANGED << probed, signature_errors, attested_total,
                            attested_passed >>
    /\ UNCHANGED << skip_signature_validation, manifest_dirs, disk, cdf_path, found,
                    manifest, meta, file_count, meta_files, authorized, i,
                    unauthorized_errors, cosign_installed, atts, run_calls, outputs,
                    exit_code, traceback >>

\* Lines 184-189 reporting a missing field without counting it.
MissingFieldErrors_Uncounted(att) == 0

\* Signature errors lines 184-189 add for an attestation object.
MissingFieldErrors(att) == Cardinality(ReqFields \ att.fields)

\* One iteration of the loop of lines 179-219, over the next attestation file.
Attest ==
    /\ pc = "attest"
    /\ Len(atts) < MaxAtt
    /\ \E att \in AttFiles :
        /\ atts' = Append(atts, att)
        /\ attested_total' = attested_total + 1
        /\ IF att.json = "garbage"
           THEN /\ signature_errors' = signature_errors + 1
                /\ UNCHANGED << attested_passed, run_calls >>
           ELSE IF ~att.sig
           THEN /\ signature_errors' = signature_errors + MissingFieldErrors(att) + 1
                /\ UNCHANGED << attested_passed, run_calls >>
           ELSE /\ run_calls' = run_calls + 1
                /\ IF att.rc # 0
                   THEN /\ signature_errors' =
                              signature_errors + MissingFieldErrors(att) + 1
                        /\ UNCHANGED attested_passed
                   ELSE /\ signature_errors' = signature_errors + MissingFieldErrors(att)
                        /\ attested_passed' = attested_passed + 1
    /\ UNCHANGED << pc, skip_signature_validation, manifest_dirs, disk, cdf_path, found,
                    manifest, meta, file_count, meta_files, authorized, i,
                    unauthorized_errors, cosign_installed, probed, outputs, exit_code, traceback >>

\* The loop of line 179 is exhausted; line 222.
AttestEnd ==
    /\ pc = "attest"
    /\ pc' = "emit"
    /\ UNCHANGED << skip_signature_validation, manifest_dirs, disk, cdf_path, found,
                    manifest, meta, file_count, meta_files, authorized, i,
                    unauthorized_errors, signature_errors, cosign_installed, probed, atts, attested_total,
                    attested_passed, run_calls, outputs, exit_code, traceback >>

total_errors == unauthorized_errors + signature_errors

\* Lines 224-240.
Emit ==
    /\ pc = "emit"
    /\ \E github_output \in BOOLEAN :
         outputs' = [channel |-> IF github_output THEN "file" ELSE "stdout",
                     status |-> IF total_errors = 0 THEN "passed" ELSE "failed",
                     error_count |-> total_errors,
                     file_count |-> file_count]
    /\ exit_code' = IF total_errors > 0 THEN 1 ELSE 0
    /\ pc' = "done"
    /\ UNCHANGED << skip_signature_validation, manifest_dirs, disk, cdf_path, found,
                    manifest, meta, file_count, meta_files, authorized, i,
                    unauthorized_errors, signature_errors, cosign_installed, probed, atts, attested_total,
                    attested_passed, run_calls, traceback >>

Next ==
    \/ FindCdfPath
    \/ CheckPath
    \/ LoadMeta
    \/ CountFiles
    \/ CollectMetaFiles
    \/ AuthorizeTf
    \/ HashEntry
    \/ HashEnd
    \/ SignatureCheck
    \/ Attest
    \/ AttestEnd
    \/ Emit

Spec == Init /\ [][Next]_vars

TypeOK ==
    /\ pc \in {"start", "check", "load", "count", "collect", "authorize", "hash",
               "signature", "attest", "emit", "done"}
    /\ exit_code \in {0, 1}
    /\ manifest.kind \in {"unread", "absent", "garbage", "scalar", "object"}
    /\ i \in 0..(MaxFiles + 1)
    /\ Len(atts) <= MaxAtt

----------------------------------------------------------------------------
(* Properties.  They are stated over the inputs of the run (the manifest   *)
(* document, the tree, the attestation files, the arguments) and what the  *)
(* run reports.                                                            *)

Done == pc = "done"
Emitted == outputs.channel # "none"
Status == outputs.status

\* --skip-signature-validation is 'true', in any case.
SkipTrue == skip_signature_validation \in {"true", "True", "TRUE"}

\* The manifest document is a JSON object whose 'files' value is a list.
ListsFiles == manifest.kind = "object" /\ manifest.ftype = "list"

\* Names the entries of the manifest's 'files' list declare.
DeclaredNames ==
    { manifest.files[k].name : k \in 1..Len(manifest.files) }

\* The file an entry names exists under the root with the recorded digest.
FileMatches(f) ==
    /\ PathExists(cdf_path, f.name)
    /\ sha256_file(cdf_path, f.name) = f.sha256

\* The entries line 122-126 do not pass over.
Verified(f) ==
    /\ f.isdict
    /\ Truthy(f.name)
    /\ Truthy(f.sha256)
    /\ f.name # "cdf-meta.json"
    /\ f.sha256 \notin {"placeholder_", "placeholder_1"}

Failing(f) == Verified(f) /\ ~FileMatches(f)

FailingUpTo(n) ==
    Cardinality({ k \in 1..n : Failing(manifest.files[k]) })

\* C1: a run over a located CDF path whose manifest lists files and that ends
\* 'passed' has every cdf-main.tf that list_tf_files finds under the root
\* named by an entry of the manifest's 'files' list.
C1_Authorization ==
    (Done /\ found /\ ListsFiles /\ Status = "passed")
        => \A p \in list_tf_files(cdf_path) : Join(p) \in DeclaredNames

\* C2 as claimed: a run over a located CDF path that ends 'passed' has every
\* file named in the manifest's 'files' list present with the recorded
\* SHA-256 (stated here for the entries that have a name and a sha256 and
\* are not the manifest itself).
C2_EveryListedFileMatches ==
    (Done /\ found /\ Status = "passed")
        => \A k \in 1..Len(manifest.files) :
              ( /\ manifest.files[k].isdict
                /\ Truthy(manifest.files[k].name)
                /\ Truthy(manifest.files[k].sha256)
                /\ manifest.files[k].name # "cdf-meta.json" )
                  => FileMatches(manifest.files[k])

\* C2, amended: a run that ends 'passed' has every entry with a name and a
\* sha256, other than cdf-meta.json and placeholder_ hashes, present with the
\* recorded SHA-256; and each such entry that is missing or differs has added
\* exactly one unauthorized error, at every point of the hash loop and after.
C2_Integrity ==
    /\ (Done /\ Status = "passed")
          => \A k \in 1..Len(manifest.files) : ~Failing(manifest.files[k])
    /\ pc = "hash" => unauthorized_errors = FailingUpTo(i - 1)
    /\ (ListsFiles /\ traceback = "none" /\ pc \in {"signature", "attest", "emit", "done"})
          => unauthorized_errors = FailingUpTo(Len(manifest.files))

\* C2: a run has passed with an entry whose file was hashed and compared.
C2_Witness ==
    /\ Done /\ found /\ Status = "passed"
    /\ \E k \in 1..Len(manifest.files) : Verified(manifest.files[k])

\* C3: a run that has ended has exit code 1 exactly when unauthorized_errors
\* + signature_errors > 0, and exit code 0 otherwise.
C3_ExitCode ==
    Done => /\ exit_code = 1 <=> total_errors > 0
            /\ exit_code = 0 <=> total_errors = 0

\* C4: whatever the manifest holds, a run that has ended has gone through
\* every entry of the 'files' list, has emitted its outputs, and reports
\* error_count = unauthorized_errors + signature_errors.
C4_NoAbort ==
    Done => /\ Emitted
            /\ outputs.error_count = total_errors
            /\ ListsFiles => i = Len(manifest.files) + 1

\* C5: when cdf-meta.json exists and is not parseable, the run counts exactly
\* one unauthorized error, is not ended by an exception, can always take its
\* next step, and ends 'failed' with error_count 1, its file_count and exit
\* code 1.
C5_UnreadableManifest ==
    manifest.kind = "garbage"
        => /\ unauthorized_errors = 1
           /\ signature_errors = 0
           /\ traceback = "none"
           /\ pc \in {"count", "collect", "emit", "done"}
           /\ ~Done => ENABLED Next
           /\ Done => /\ Emitted
                      /\ Status = "failed"
                      /\ outputs.error_count = 1
                      /\ outputs.file_count = file_count
                      /\ exit_code = 1

\* C5: a run over an unparseable manifest has ended 'failed'.
C5_Witness ==
    manifest.kind = "garbage" /\ Done /\ Status = "failed" /\ cdf_path \in manifest_dirs

NoSig(k) == atts[k].json = "object" /\ ~atts[k].sig
Rejected(k) == atts[k].json = "object" /\ atts[k].sig /\ atts[k].rc # 0
Accepted(k) == atts[k].json = "object" /\ atts[k].sig /\ atts[k].rc = 0

\* Attestations whose signature artifact is missing or that cosign rejects.
SignatureFailures ==
    Cardinality({ k \in 1..Len(atts) : NoSig(k) \/ Rejected(k) })

\* C6 as claimed: a run over a located CDF path without
\* --skip-signature-validation that emits its outputs, on a machine without
\* cosign, has a signature error and ends 'failed' with exit code 1.
C6_CosignAbsentAlwaysFails ==
    (Done /\ traceback = "none" /\ found /\ ~SkipTrue /\ ~cosign_installed)
        => /\ signature_errors >= 1
           /\ Status = "failed"
           /\ exit_code = 1

\* C6, amended: in a run without --skip-signature-validation whose manifest
\* lists files and that has reached the signature step, cosign has been
\* looked for; its absence, each attestation without a .sig file and each
\* attestation cosign rejects has added a signature error; and with any of
\* them the run ends 'failed' with exit code 1.
C6_SignatureErrors ==
    (~SkipTrue /\ ListsFiles /\ traceback = "none" /\ pc \in {"attest", "emit", "done"})
        => /\ probed
           /\ signature_errors >=
                  (IF cosign_installed THEN 0 ELSE 1) + SignatureFailures
           /\ (Done /\ (~cosign_installed \/ SignatureFailures > 0))
                 => (Status = "failed" /\ exit_code = 1)

\* C6: a run has ended 'failed' with cosign installed, one attestation
\* lacking its .sig file and another one rejected by cosign.
C6_Witness ==
    /\ Done /\ found /\ ~SkipTrue /\ cosign_installed /\ Status = "failed"
    /\ \E k \in 1..Len(atts) : NoSig(k)
    /\ \E k \in 1..Len(atts) : Rejected(k)

\* C7: with --skip-signature-validation 'true' in any case, cosign is neither
\* looked for nor run, no attestation is read, signature_errors stays 0, and
\* the status, error_count and exit code reported are those of
\* unauthorized_errors alone.
C7_SkipSignature ==
    SkipTrue
        => /\ ~probed
           /\ run_calls = 0
           /\ atts = <<>>
           /\ signature_errors = 0
           /\ (Done /\ traceback = "none")
                 => /\ outputs.error_count = unauthorized_errors
                    /\ Status = "passed" <=> unauthorized_errors = 0
                    /\ Status = "failed" <=> unauthorized_errors > 0
                    /\ exit_code = 0 <=> unauthorized_errors = 0

\* C7: a run given 'TRUE' has passed over a manifest that lists a verified
\* file, on a machine without cosign.
C7_Witness ==
    /\ skip_signature_validation = "TRUE" /\ ~cosign_installed
    /\ Done /\ Status = "passed" /\ ListsFiles
    /\ \E k \in 1..Len(manifest.files) : Verified(manifest.files[k])

\* C8: a run that ends without an exception has emitted validation_status,
\* error_count and file_count to the output file or to stdout; the status is
\* 'skipped' (with error_count 0, file_count 0, exit code 0) exactly when
\* find_cdf_path located no root, 'passed' exactly when it located one and
\* error_count is 0, and 'failed' exactly when error_count > 0.
C8_Outputs ==
    (Done /\ traceback = "none")
        => /\ Emitted
           /\ Status = "skipped" <=> ~found
           /\ Status = "skipped"
                 => (outputs.error_count = 0 /\ outputs.file_count = 0 /\ exit_code = 0)
           /\ Status = "passed" <=> (found /\ outputs.error_count = 0)
           /\ Status = "failed" <=> outputs.error_count > 0

\* C9: when cdf-meta.json is absent, or is an object without a 'files' list
\* (the empty object included), no entry is hashed, cosign is neither looked
\* for nor run, both error counters stay 0, no exception ends the run, and
\* the run ends 'passed' with exit code 0.
C9_NoFilesList ==
    (manifest.kind = "absent" \/ (manifest.kind = "object" /\ manifest.ftype # "list"))
        => /\ pc \in {"count", "collect", "emit", "done"}
           /\ i = 0
           /\ ~probed
           /\ run_calls = 0
           /\ unauthorized_errors = 0
           /\ signature_errors = 0
           /\ traceback = "none"
           /\ Done => /\ Status = "passed"
                      /\ outputs.error_count = 0
                      /\ exit_code = 0

\* C9: a run over a located root whose manifest has a 'files' value that is
\* no list has passed, signature validation requested, cosign missing and a
\* Terraform file on disk.
C9_Witness ==
    /\ Done /\ found /\ Status = "passed"
    /\ manifest.kind = "object" /\ manifest.ftype = "nonlist"
    /\ ~SkipTrue /\ ~cosign_installed /\ disk # "missing"

\* Signature errors one attestation file adds.
AttErrors(a) ==
    IF a.json = "garbage" THEN 1
    ELSE Cardinality(ReqFields \ a.fields)
         + (IF a.sig /\ a.rc = 0 THEN 0 ELSE 1)

RECURSIVE SumAttErrors(_)
SumAttErrors(seq) ==
    IF seq = <<>> THEN 0 ELSE AttErrors(Head(seq)) + SumAttErrors(Tail(seq))

\* C10: in and after the attestation loop, attested_total counts the files
\* read and attested_passed those cosign accepted, attested_passed <=
\* attested_total, every attestation not counted as passed has added a
\* signature error, the missing fields of every attestation (accepted ones
\* too) are counted, and a run ends 'passed' only if every attestation is an
\* object with the four fields, a .sig file and cosign's acceptance.
C10_AttestationAccounting ==
    /\ attested_total = Len(atts)
    /\ attested_passed = Cardinality({ k \in 1..Len(atts) : Accepted(k) })
    /\ attested_passed <= attested_total
    /\ signature_errors >= attested_total - attested_passed
    /\ signature_errors =
           (IF probed /\ ~cosign_installed THEN 1 ELSE 0) + SumAttErrors(atts)
    /\ (Done /\ Status = "passed")
          => \A k \in 1..Len(atts) : Accepted(k) /\ atts[k].fields = ReqFields

\* C10: a run has ended 'failed' although cosign accepted every attestation:
\* an accepted attestation lacked a required field.
C10_Witness ==
    /\ Done /\ Status = "failed" /\ unauthorized_errors = 0
    /\ attested_total >= 1 /\ attested_passed = attested_total
    /\ \E k \in 1..Len(atts) : Accepted(k) /\ atts[k].fields # ReqFields
====
